---- MODULE Spec2Model ----
(***************************************************************************)
(* Model of blesync (src/src/main.c): a Mynewt/NimBLE application that     *)
(* asks the host to synchronise to one periodic advertiser, starts         *)
(* extended scanning, and logs the GAP events the host delivers.           *)
(*                                                                         *)
(* Two threads of control exist in the source: the default task, which     *)
(* drains the host event queue (main_fn) and on which the host calls       *)
(* blesync_on_sync, blesync_on_reset and blesync_gap_event, and            *)
(* blesync_main_task, which runs the start sequence and then sleeps.       *)
(*                                                                         *)
(* The source declares no session object.  The variables state,            *)
(* sync_handle, last_error and reports_received are the Sync Session of    *)
(* the specification (section 3); they are carried so that statements      *)
(* about the session can be written down, and an action changes them       *)
(* exactly where the source has a statement that stores into a session,    *)
(* which is nowhere.                                                       *)
(***************************************************************************)
EXTENDS Integers, FiniteSets, Sequences, TLC

-----------------------------------------------------------------------------
(* Bounds of the model *)

\* status codes 0..MaxRc returned by a host or OS call (0 is success)
MaxRc == 2
\* status codes 0..MaxStatus carried by a periodic-sync event (0 is success)
MaxStatus == 2
\* sync handles 0..MaxHandle carried by a periodic-sync event
MaxHandle == 7
\* reason codes 0..MaxReason carried by a sync-lost event or a host reset
MaxReason == 2
\* number of event kinds the dispatcher has no case for
MaxOtherKinds == 2
\* number of times the host reports ready (sync_cb) in one run
MaxHostReady == 2

-----------------------------------------------------------------------------
(* Program constants *)

\* params.skip
SKIP == 0
\* params.sync_timeout, in units of 10 ms
SYNC_TIMEOUT == 16384
\* params.reports_disabled
REPORTS_DISABLED == 0
\* "Min 0x000A, max 0x4000"
SYNC_TIMEOUT_MIN == 10
SYNC_TIMEOUT_MAX == 16384

\* blepadv_addr: the compiled-in target
blepadv_addr == [type |-> "BLE_ADDR_PUBLIC", val |-> <<3, 0, 0, 30, 187, 186>>]

\* sync_create_params with sync_timeout set to 0x5000
sync_create_params_5000 ==
    [addr |-> blepadv_addr, adv_sid |-> 0, skip |-> SKIP,
     sync_timeout |-> 20480, reports_disabled |-> REPORTS_DISABLED]

\* the arguments blesync_sync_create hands to ble_gap_periodic_adv_sync_create
sync_create_params ==
    [addr |-> blepadv_addr, adv_sid |-> 0, skip |-> SKIP,
     sync_timeout |-> SYNC_TIMEOUT, reports_disabled |-> REPORTS_DISABLED]

-----------------------------------------------------------------------------
(* Values *)

None == {}
Some(x) == {x}

RC == 0..MaxRc

\* struct ble_gap_event, reduced to the fields blesync_gap_event reads.  A field
\* the event kind does not carry is 0.
Events ==
    {[type |-> "EXT_DISC", status |-> 0, sync_handle |-> 0, reason |-> 0, kind |-> 0]}
    \cup {[type |-> "PERIODIC_SYNC", status |-> s, sync_handle |-> h, reason |-> 0, kind |-> 0] :
            s \in 0..MaxStatus, h \in 0..MaxHandle}
    \cup {[type |-> "PERIODIC_REPORT", status |-> 0, sync_handle |-> 0, reason |-> 0, kind |-> 0]}
    \cup {[type |-> "PERIODIC_SYNC_LOST", status |-> 0, sync_handle |-> 0, reason |-> r, kind |-> 0] :
            r \in 0..MaxReason}
    \cup {[type |-> "OTHER", status |-> 0, sync_handle |-> 0, reason |-> 0, kind |-> k] :
            k \in 1..MaxOtherKinds}

VARIABLES
    pc,               \* position of blesync_main_task in blesync_main_task_fn
    aborted,          \* an assert failed: the system has stopped
    hostUp,           \* the host is synced with the controller (sync_cb ran since the last reset)
    hostReadyCount,   \* number of sync_cb invocations so far
    hostSync,         \* the host's periodic sync: "none", "pending" (create accepted),
                      \* "established", "failed", "lost"
    hostHandle,       \* the handle of the host's established sync, None without one
    scanning,         \* the host accepted ble_gap_ext_disc and is scanning
    syncCreateCalls,  \* number of ble_gap_periodic_adv_sync_create calls issued
    scanCalls,        \* number of ble_gap_ext_disc calls issued
    cancelCalls,      \* number of ble_gap_disc_cancel calls issued
    lastSyncParams,   \* arguments of the latest sync-create call, None before the first
    lastRc,           \* status of the latest start call (sync-create or ext-scan), None before the first
    console,          \* the latest console_printf line: <<text, value>>
    dispatched,       \* the event blesync_gap_event handled in the latest step, None otherwise
    ret,              \* what blesync_gap_event returned in the latest step, None otherwise
    running,          \* the task that executed the latest step
    addrRc,           \* status of the latest ble_hs_util_ensure_addr call, None before the first
    state,            \* Sync Session: state
    sync_handle,      \* Sync Session: sync_handle
    last_error,       \* Sync Session: last_error
    reports_received  \* Sync Session: stats.reports_received

hostVars == <<hostUp, hostReadyCount, hostSync, hostHandle, scanning>>
callVars == <<syncCreateCalls, scanCalls, cancelCalls, lastSyncParams, lastRc>>
sessionVars == <<state, sync_handle, last_error, reports_received>>
vars == <<pc, aborted, hostVars, callVars, console, dispatched, ret, running, addrRc,
          sessionVars>>

Session ==
    [state |-> state, sync_handle |-> sync_handle, last_error |-> last_error,
     reports_received |-> reports_received]

-----------------------------------------------------------------------------
(* The host stack, as far as the program's calls and callbacks show it *)

\* sync_timeout within the protocol's range
TimeoutInRange(p) ==
    SYNC_TIMEOUT_MIN <= p.sync_timeout /\ p.sync_timeout <= SYNC_TIMEOUT_MAX

\* Statuses the host may answer a sync-create request with: a request is refused
\* while the host is not synced, while another request is pending, or when its
\* sync_timeout is out of range, and may be refused for any other reason.
HostCreateStatuses(up, hs, p) ==
    IF ~up \/ hs = "pending" \/ ~TimeoutInRange(p) THEN RC \ {0} ELSE RC

\* Statuses the host may answer an extended-scan request with: refused while the
\* host is not synced or is scanning already, and for any other reason.
HostScanStatuses(up, sc) == IF ~up \/ sc THEN RC \ {0} ELSE RC

\* The host's periodic sync after it delivered event ev: a pending request ends
\* with the periodic-sync event, an established sync with the sync-lost event.
HostAfterEvent(hs, ev) ==
    CASE ev.type = "PERIODIC_SYNC" /\ hs = "pending" ->
            IF ev.status = 0 THEN "established" ELSE "failed"
      [] ev.type = "PERIODIC_SYNC_LOST" /\ hs = "established" -> "lost"
      [] OTHER -> hs

\* The handle of the host's established sync after it delivered event ev.
HostHandleAfterEvent(hs, hh, ev) ==
    CASE ev.type = "PERIODIC_SYNC" /\ hs = "pending" ->
            IF ev.status = 0 THEN Some(ev.sync_handle) ELSE None
      [] ev.type = "PERIODIC_SYNC_LOST" /\ hs = "established" -> None
      [] OTHER -> hh

-----------------------------------------------------------------------------
(* The two tasks *)

\* the default task: main_fn runs the default event queue on it, and the host
\* calls sync_cb, reset_cb and the GAP event callback from that queue
event_task == "default"

\* the start sequence run by the host-ready callback itself
start_task_inline == "default"

\* the task os_task_init makes run blesync_main_task_fn
start_task == "blesync_main_task"

-----------------------------------------------------------------------------
(* main_fn: the state once the callbacks are registered and the event loop runs *)

Init ==
    /\ pc = "none"
    /\ aborted = FALSE
    /\ hostUp = FALSE
    /\ hostReadyCount = 0
    /\ hostSync = "none"
    /\ hostHandle = None
    /\ scanning = FALSE
    /\ syncCreateCalls = 0
    /\ scanCalls = 0
    /\ cancelCalls = 0
    /\ lastSyncParams = None
    /\ lastRc = None
    /\ console = <<"Hello, BLE periodic advertiser!", 0>>
    /\ dispatched = None
    /\ ret = None
    /\ running = event_task
    /\ addrRc = None
    /\ state = "Idle"
    /\ sync_handle = None
    /\ last_error = None
    /\ reports_received = 0

NoDispatch == dispatched' = None /\ ret' = None

-----------------------------------------------------------------------------
(* blesync_gap_event *)

\* gap_event_rc with the default case returning an error status
gap_event_rc_default(ev) ==
    IF ev.type = "OTHER" THEN 1 ELSE 0

\* the value the dispatcher returns for ev
gap_event_rc(ev) ==
    CASE ev.type = "EXT_DISC" -> 0
      [] ev.type = "PERIODIC_SYNC" -> 0
      [] ev.type = "PERIODIC_REPORT" -> 0
      [] ev.type = "PERIODIC_SYNC_LOST" -> 0
      [] OTHER -> 0

ConsoleLine(ev, c, syncLine, reportLine, lostLine) ==
    CASE ev.type = "EXT_DISC" -> c
      [] ev.type = "PERIODIC_SYNC" -> syncLine
      [] ev.type = "PERIODIC_REPORT" -> reportLine
      [] ev.type = "PERIODIC_SYNC_LOST" -> lostLine
      [] OTHER -> <<"Event not handled", ev.kind>>

\* gap_event_console with the status test inverted
gap_event_console_inverted(ev, c) ==
    ConsoleLine(ev, c,
        IF ev.status = 0
        THEN <<"Periodic Sync Establishment Failed; status=", ev.status>>
        ELSE <<"Periodic Sync Established; sync_handle=", ev.sync_handle>>,
        <<"BLE_GAP_EVENT_PERIODIC_REPORT", 0>>,
        <<"Periodic Sync Lost, reason ", ev.reason>>)

\* gap_event_console printing the sync handle where the status belongs
gap_event_console_handle(ev, c) ==
    ConsoleLine(ev, c,
        IF ev.status # 0
        THEN <<"Periodic Sync Establishment Failed; status=", ev.sync_handle>>
        ELSE <<"Periodic Sync Established; sync_handle=", ev.sync_handle>>,
        <<"BLE_GAP_EVENT_PERIODIC_REPORT", 0>>,
        <<"Periodic Sync Lost, reason ", ev.reason>>)

\* gap_event_console printing the sync handle where the loss reason belongs
gap_event_console_lost(ev, c) ==
    ConsoleLine(ev, c,
        IF ev.status # 0
        THEN <<"Periodic Sync Establishment Failed; status=", ev.status>>
        ELSE <<"Periodic Sync Established; sync_handle=", ev.sync_handle>>,
        <<"BLE_GAP_EVENT_PERIODIC_REPORT", 0>>,
        <<"Periodic Sync Lost, reason ", ev.sync_handle>>)

\* gap_event_console with the report case falling through into the lost case
gap_event_console_fallthrough(ev, c) ==
    ConsoleLine(ev, c,
        IF ev.status # 0
        THEN <<"Periodic Sync Establishment Failed; status=", ev.status>>
        ELSE <<"Periodic Sync Established; sync_handle=", ev.sync_handle>>,
        <<"Periodic Sync Lost, reason ", ev.reason>>,
        <<"Periodic Sync Lost, reason ", ev.reason>>)

\* the console line after the dispatcher handled ev, c being the line before
gap_event_console(ev, c) ==
    CASE ev.type = "EXT_DISC" -> c
      [] ev.type = "PERIODIC_SYNC" ->
            IF ev.status # 0
            THEN <<"Periodic Sync Establishment Failed; status=", ev.status>>
            ELSE <<"Periodic Sync Established; sync_handle=", ev.sync_handle>>
      [] ev.type = "PERIODIC_REPORT" -> <<"BLE_GAP_EVENT_PERIODIC_REPORT", 0>>
      [] ev.type = "PERIODIC_SYNC_LOST" -> <<"Periodic Sync Lost, reason ", ev.reason>>
      [] OTHER -> <<"Event not handled", ev.kind>>

\* gap_event_session counting every report, whatever the session state
gap_event_session_counting(ev, s) ==
    IF ev.type = "PERIODIC_REPORT"
    THEN [s EXCEPT !.reports_received = (@ + 1) % 4]
    ELSE s

\* gap_event_session storing every successful periodic-sync event, whether a
\* request is outstanding or not
gap_event_session_store(ev, s) ==
    IF ev.type = "PERIODIC_SYNC" /\ ev.status = 0
    THEN [s EXCEPT !.state = "Synced", !.sync_handle = Some(ev.sync_handle)]
    ELSE s

\* the session after the dispatcher handled ev: no case stores anything
gap_event_session(ev, s) == s

\* gap_event_cancels with the call under EXT_DISC compiled in
gap_event_cancels_enabled(ev, n) ==
    IF ev.type = "EXT_DISC" THEN (n + 1) % 4 ELSE n

\* the number of ble_gap_disc_cancel calls after the dispatcher handled ev: the
\* call under EXT_DISC is commented out
gap_event_cancels(ev, n) == n

blesync_gap_event(ev) ==
    /\ ~aborted
    /\ hostUp
    /\ scanning \/ hostSync # "none"
    /\ dispatched' = Some(ev)
    /\ ret' = Some(gap_event_rc(ev))
    /\ console' = gap_event_console(ev, console)
    /\ LET s == gap_event_session(ev, Session) IN
         /\ state' = s.state
         /\ sync_handle' = s.sync_handle
         /\ last_error' = s.last_error
         /\ reports_received' = s.reports_received
    /\ cancelCalls' = gap_event_cancels(ev, cancelCalls)
    /\ hostSync' = HostAfterEvent(hostSync, ev)
    /\ hostHandle' = HostHandleAfterEvent(hostSync, hostHandle, ev)
    /\ running' = event_task
    /\ UNCHANGED <<pc, aborted, hostUp, hostReadyCount, scanning, addrRc,
                   syncCreateCalls, scanCalls, lastSyncParams, lastRc>>

-----------------------------------------------------------------------------
(* blesync_on_reset *)

\* blesync_on_reset restarting the scan as a recovery
blesync_on_reset_recovers(reason) ==
    /\ ~aborted
    /\ hostUp
    /\ console' = <<"Extended scan started, status ", 1>>
    /\ hostUp' = FALSE
    /\ hostSync' = "none"
    /\ hostHandle' = None
    /\ scanning' = FALSE
    /\ scanCalls' = (scanCalls + 1) % 4
    /\ lastRc' = Some(1)
    /\ NoDispatch
    /\ running' = event_task
    /\ UNCHANGED <<pc, aborted, hostReadyCount, syncCreateCalls, cancelCalls,
                   lastSyncParams, addrRc, sessionVars>>

blesync_on_reset(reason) ==
    /\ ~aborted
    /\ hostUp
    /\ console' = <<"Resetting state; reason=", reason>>
    /\ hostUp' = FALSE
    /\ hostSync' = "none"
    /\ hostHandle' = None
    /\ scanning' = FALSE
    /\ NoDispatch
    /\ running' = event_task
    /\ UNCHANGED <<pc, aborted, hostReadyCount, callVars, addrRc, sessionVars>>

-----------------------------------------------------------------------------
(* blesync_on_sync *)

\* assert compiled out
assert_off(rc) == TRUE

\* assert(rc == 0)
assert_ok(rc) == rc = 0

\* blesync_on_sync without the assert on ble_hs_util_ensure_addr's status
blesync_on_sync_unchecked ==
    /\ ~aborted
    /\ ~hostUp
    /\ hostReadyCount < MaxHostReady
    /\ hostUp' = TRUE
    /\ hostReadyCount' = hostReadyCount + 1
    /\ \E rcAddr \in RC, rcTask \in RC :
         /\ addrRc' = Some(rcAddr)
         /\ IF ~assert_ok(rcTask)
            THEN aborted' = TRUE /\ pc' = pc
            ELSE aborted' = FALSE /\ pc' = "entry"
    /\ NoDispatch
    /\ running' = event_task
    /\ UNCHANGED <<hostSync, hostHandle, scanning, callVars, console, sessionVars>>

blesync_on_sync ==
    /\ ~aborted
    /\ ~hostUp
    /\ hostReadyCount < MaxHostReady
    /\ hostUp' = TRUE
    /\ hostReadyCount' = hostReadyCount + 1
    /\ \E rcAddr \in RC, rcTask \in RC :
         /\ addrRc' = Some(rcAddr)
         /\ IF ~assert_ok(rcAddr)
            THEN aborted' = TRUE /\ pc' = pc
            ELSE IF ~assert_ok(rcTask)
                 THEN aborted' = TRUE /\ pc' = pc
                 ELSE aborted' = FALSE /\ pc' = "entry"
    /\ NoDispatch
    /\ running' = event_task
    /\ UNCHANGED <<hostSync, hostHandle, scanning, callVars, console, sessionVars>>

-----------------------------------------------------------------------------
(* blesync_main_task_fn, one step per call into the OS or the host *)

\* console_printf, os_sem_init, assert
task_sem_init ==
    /\ ~aborted
    /\ pc = "entry"
    /\ console' = <<"BLE Sync Main Task welcomes you on-board", 0>>
    /\ \E rc \in RC :
         IF assert_ok(rc)
         THEN pc' = "sync_create" /\ aborted' = FALSE
         ELSE pc' = pc /\ aborted' = TRUE
    /\ NoDispatch
    /\ running' = start_task
    /\ UNCHANGED <<hostVars, callVars, addrRc, sessionVars>>

\* task_sync_create issuing the request again after it was accepted
task_sync_create_retry ==
    /\ ~aborted
    /\ pc = "sync_create"
    /\ syncCreateCalls < 2 * MaxHostReady
    /\ \E rc \in HostCreateStatuses(hostUp, hostSync, sync_create_params) :
         /\ syncCreateCalls' = syncCreateCalls + 1
         /\ lastSyncParams' = Some(sync_create_params)
         /\ lastRc' = Some(rc)
         /\ console' = <<"Sync to periodic advertising started, status ", rc>>
         /\ hostSync' = IF rc = 0 THEN "pending" ELSE hostSync
         /\ hostHandle' = IF rc = 0 THEN None ELSE hostHandle
         /\ IF assert_ok(rc)
            THEN pc' = pc /\ aborted' = FALSE
            ELSE pc' = "ext_scan" /\ aborted' = FALSE
    /\ NoDispatch
    /\ running' = start_task
    /\ UNCHANGED <<hostUp, hostReadyCount, scanning, scanCalls, cancelCalls, addrRc,
                   sessionVars>>

\* task_sync_create without the assert on the request's status
task_sync_create_unchecked ==
    /\ ~aborted
    /\ pc = "sync_create"
    /\ \E rc \in HostCreateStatuses(hostUp, hostSync, sync_create_params) :
         /\ syncCreateCalls' = syncCreateCalls + 1
         /\ lastSyncParams' = Some(sync_create_params)
         /\ lastRc' = Some(rc)
         /\ console' = <<"Sync to periodic advertising started, status ", rc>>
         /\ hostSync' = IF rc = 0 THEN "pending" ELSE hostSync
         /\ hostHandle' = IF rc = 0 THEN None ELSE hostHandle
         /\ pc' = "ext_scan"
         /\ aborted' = FALSE
    /\ NoDispatch
    /\ running' = start_task
    /\ UNCHANGED <<hostUp, hostReadyCount, scanning, scanCalls, cancelCalls, addrRc,
                   sessionVars>>

\* blesync_sync_create, assert
task_sync_create ==
    /\ ~aborted
    /\ pc = "sync_create"
    /\ \E rc \in HostCreateStatuses(hostUp, hostSync, sync_create_params) :
         /\ syncCreateCalls' = syncCreateCalls + 1
         /\ lastSyncParams' = Some(sync_create_params)
         /\ lastRc' = Some(rc)
         /\ console' = <<"Sync to periodic advertising started, status ", rc>>
         /\ hostSync' = IF rc = 0 THEN "pending" ELSE hostSync
         /\ hostHandle' = IF rc = 0 THEN None ELSE hostHandle
         /\ IF assert_ok(rc)
            THEN pc' = "ext_scan" /\ aborted' = FALSE
            ELSE pc' = pc /\ aborted' = TRUE
    /\ NoDispatch
    /\ running' = start_task
    /\ UNCHANGED <<hostUp, hostReadyCount, scanning, scanCalls, cancelCalls, addrRc,
                   sessionVars>>

\* blesync_ext_scan, assert
task_ext_scan ==
    /\ ~aborted
    /\ pc = "ext_scan"
    /\ \E rc \in HostScanStatuses(hostUp, scanning) :
         /\ scanCalls' = scanCalls + 1
         /\ lastRc' = Some(rc)
         /\ console' = <<"Extended scan started, status ", rc>>
         /\ scanning' = IF rc = 0 THEN TRUE ELSE scanning
         /\ IF assert_ok(rc)
            THEN pc' = "sem_pend" /\ aborted' = FALSE
            ELSE pc' = pc /\ aborted' = TRUE
    /\ NoDispatch
    /\ running' = start_task
    /\ UNCHANGED <<hostUp, hostReadyCount, hostSync, hostHandle, syncCreateCalls,
                   cancelCalls, lastSyncParams, addrRc, sessionVars>>

\* os_sem_pend: nothing releases the semaphore, the wait ends by its timeout
task_sem_pend ==
    /\ ~aborted
    /\ pc = "sem_pend"
    /\ console' = <<"Entering infinite loop", 0>>
    /\ pc' = "loop"
    /\ NoDispatch
    /\ running' = start_task
    /\ UNCHANGED <<aborted, hostVars, callVars, addrRc, sessionVars>>

\* while (1) os_time_delay
task_delay ==
    /\ ~aborted
    /\ pc = "loop"
    /\ NoDispatch
    /\ running' = start_task
    /\ UNCHANGED <<pc, aborted, hostVars, callVars, console, addrRc, sessionVars>>

-----------------------------------------------------------------------------

Next ==
    \/ blesync_on_sync
    \/ \E reason \in 0..MaxReason : blesync_on_reset(reason)
    \/ \E ev \in Events : blesync_gap_event(ev)
    \/ task_sem_init
    \/ task_sync_create
    \/ task_ext_scan
    \/ task_sem_pend
    \/ task_delay

Spec == Init /\ [][Next]_vars

\* The scheduler lets blesync_main_task run whenever it can take a step; nothing
\* obliges the host to deliver an event, to reset or to report ready.
FairSpec ==
    /\ Spec
    /\ WF_vars(task_sem_init)
    /\ WF_vars(task_sync_create)
    /\ WF_vars(task_ext_scan)
    /\ WF_vars(task_sem_pend)
    /\ WF_vars(task_delay)

-----------------------------------------------------------------------------
(* Vocabulary of the claims *)

\* the latest step was blesync_gap_event handling ev
Handled(ev) == dispatched' = Some(ev)

\* ev reports a sync establishment that succeeded / that failed
IsEstablished(ev) == ev.type = "PERIODIC_SYNC" /\ ev.status = 0
IsFailed(ev) == ev.type = "PERIODIC_SYNC" /\ ev.status # 0

\* the latest start call (sync-create or ext-scan) returned a non-zero status
StartCallFailed == lastRc # None /\ 0 \notin lastRc

\* the start sequence has run to its end: both requests were accepted
StartSequenceDone == pc \in {"sem_pend", "loop"}

-----------------------------------------------------------------------------
(* C2 *)

\* C2, as stated: after an accepted create_periodic_sync (request pending at the
\* host), a periodic-sync notification with status 0 and handle h moves the
\* session to Synced with sync_handle = Some(h) and last_error = None.
C2_EstablishedMovesToSynced ==
    [][\A ev \in Events :
        (Handled(ev) /\ IsEstablished(ev) /\ hostSync = "pending")
            => /\ state' = "Synced"
               /\ sync_handle' = Some(ev.sync_handle)
               /\ last_error' = None]_vars

\* C2, amended: after an accepted create_periodic_sync, a periodic-sync
\* notification with status 0 and handle h is logged as "Periodic Sync
\* Established; sync_handle=h" and the dispatcher returns 0; the session is
\* left as it was: state Idle, sync_handle None, last_error None.
C2_EstablishedIsLogged ==
    [][\A ev \in Events :
        (Handled(ev) /\ IsEstablished(ev) /\ hostSync = "pending")
            => /\ console' = <<"Periodic Sync Established; sync_handle=", ev.sync_handle>>
               /\ ret' = Some(0)
               /\ sessionVars' = sessionVars
               /\ state' = "Idle"
               /\ sync_handle' = None
               /\ last_error' = None]_vars

\* an accepted request was answered by an established notification with handle 7,
\* and the dispatcher logged it
C2_Witness ==
    /\ \E ev \in dispatched : IsEstablished(ev) /\ ev.sync_handle = 7
    /\ hostSync = "established"
    /\ hostHandle = Some(7)
    /\ lastSyncParams = Some(sync_create_params)
    /\ console = <<"Periodic Sync Established; sync_handle=", 7>>
    /\ ret = Some(0)

-----------------------------------------------------------------------------
(* C3 *)

\* C3, as stated: after an accepted create_periodic_sync, a periodic-sync
\* notification with a non-zero status code moves the session to Idle with
\* sync_handle = None and last_error = Some(code), and raises no fault.
C3_FailureRecordsLastError ==
    [][\A ev \in Events :
        (Handled(ev) /\ IsFailed(ev) /\ hostSync = "pending")
            => /\ state' = "Idle"
               /\ sync_handle' = None
               /\ last_error' = Some(ev.status)
               /\ ~aborted']_vars

\* C3, amended: after an accepted create_periodic_sync, a periodic-sync
\* notification with a non-zero status code leaves the session Idle with
\* sync_handle = None, is logged with its code ("Periodic Sync Establishment
\* Failed; status=code"), returns 0 and raises no fault; the code is not
\* stored: last_error stays None.
C3_FailureIsLogged ==
    [][\A ev \in Events :
        (Handled(ev) /\ IsFailed(ev) /\ hostSync = "pending")
            => /\ state' = "Idle"
               /\ sync_handle' = None
               /\ last_error' = None
               /\ sessionVars' = sessionVars
               /\ console' = <<"Periodic Sync Establishment Failed; status=", ev.status>>
               /\ ret' = Some(0)
               /\ ~aborted']_vars

\* an accepted request was answered by a failure notification with code MaxStatus
C3_Witness ==
    /\ \E ev \in dispatched : IsFailed(ev) /\ ev.status = MaxStatus
    /\ hostSync = "failed"
    /\ console = <<"Periodic Sync Establishment Failed; status=", MaxStatus>>
    /\ ret = Some(0)
    /\ ~aborted

-----------------------------------------------------------------------------
(* C4 *)

\* C4, as stated: start() while the session is active (the start sequence has
\* run, its requests accepted) is a no-op: the start sequence is not entered
\* again, no request is issued and nothing fails.  The start sequence is entered
\* from the host-ready callback.
C4_StartIsIdempotent ==
    [][(hostReadyCount' = hostReadyCount + 1 /\ StartSequenceDone)
            => /\ pc' = pc
               /\ aborted' = aborted
               /\ UNCHANGED callVars]_vars

-----------------------------------------------------------------------------
(* C5 *)

\* C5, as stated: from Synced (the host's sync established), a sync-lost
\* notification with reason r clears sync_handle, sets last_error = Some(r) and
\* moves the session to Lost.
C5_LossMovesToLost ==
    [][\A ev \in Events :
        (Handled(ev) /\ ev.type = "PERIODIC_SYNC_LOST" /\ hostSync = "established")
            => /\ sync_handle' = None
               /\ last_error' = Some(ev.reason)
               /\ state' = "Lost"]_vars

\* C5, amended: a sync-lost notification with reason r, also one that ends an
\* established sync, is logged as "Periodic Sync Lost, reason r" and returns 0;
\* sync_handle is None afterwards, and last_error and state are left as they
\* were (no Lost state is entered).  A later host-ready notification whose
\* checks pass enters the start sequence again, whatever the session.
C5_LossIsLogged ==
    [][/\ \A ev \in Events :
            (Handled(ev) /\ ev.type = "PERIODIC_SYNC_LOST")
                => /\ console' = <<"Periodic Sync Lost, reason ", ev.reason>>
                   /\ ret' = Some(0)
                   /\ sync_handle' = None
                   /\ sessionVars' = sessionVars
       /\ (hostReadyCount' = hostReadyCount + 1 /\ ~aborted') => pc' = "entry"]_vars

\* an established sync was ended by a sync-lost notification with reason MaxReason
C5_Witness ==
    /\ \E ev \in dispatched : ev.type = "PERIODIC_SYNC_LOST" /\ ev.reason = MaxReason
    /\ hostSync = "lost"
    /\ console = <<"Periodic Sync Lost, reason ", MaxReason>>
    /\ ret = Some(0)
    /\ state = "Idle"

-----------------------------------------------------------------------------
(* C6 *)

\* C6, as stated, one report at a time: while Synced (the host's sync
\* established), a periodic-report event increases stats.reports_received by
\* one and leaves state, sync_handle and last_error unchanged.
C6_ReportIsCounted ==
    [][\A ev \in Events :
        (Handled(ev) /\ ev.type = "PERIODIC_REPORT" /\ hostSync = "established")
            => /\ reports_received' = reports_received + 1
               /\ UNCHANGED <<state, sync_handle, last_error>>]_vars

\* C6, amended: a periodic-report event, also one received while the host's sync
\* is established, is logged ("BLE_GAP_EVENT_PERIODIC_REPORT"), returns 0 and
\* leaves state, sync_handle and last_error unchanged; no counter is kept:
\* stats.reports_received is unchanged too, after any number of reports.
C6_ReportIsLoggedNotCounted ==
    [][\A ev \in Events :
        (Handled(ev) /\ ev.type = "PERIODIC_REPORT")
            => /\ console' = <<"BLE_GAP_EVENT_PERIODIC_REPORT", 0>>
               /\ ret' = Some(0)
               /\ reports_received' = reports_received
               /\ UNCHANGED <<state, sync_handle, last_error>>]_vars

\* a report was handled while the host's sync was established
C6_Witness ==
    /\ \E ev \in dispatched : ev.type = "PERIODIC_REPORT"
    /\ hostSync = "established"
    /\ console = <<"BLE_GAP_EVENT_PERIODIC_REPORT", 0>>
    /\ reports_received = 0

-----------------------------------------------------------------------------
(* C7 *)

\* C7: a periodic-report or sync-lost notification handled while the session
\* state is not Synced leaves state, sync_handle, last_error and
\* stats.reports_received unchanged, returns 0 and stops nothing.
C7_OutOfStateEventDropped ==
    [][\A ev \in Events :
        (/\ Handled(ev)
         /\ ev.type \in {"PERIODIC_REPORT", "PERIODIC_SYNC_LOST"}
         /\ state # "Synced")
            => /\ sessionVars' = sessionVars
               /\ ret' = Some(0)
               /\ ~aborted']_vars

\* a report was handled while the session was Idle, the host's sync request
\* having failed
C7_Witness ==
    /\ \E ev \in dispatched : ev.type = "PERIODIC_REPORT"
    /\ state = "Idle"
    /\ hostSync = "failed"
    /\ ret = Some(0)
    /\ ~aborted

-----------------------------------------------------------------------------
(* C8 *)

\* C8: the dispatcher returns 0 for every event, of a kind it has a case for or
\* not, and an event of a kind it has no case for changes nothing of the session,
\* issues no host call and stops nothing.
C8_DispatchReturnsZero ==
    [][\A ev \in Events :
        Handled(ev)
            => /\ ret' = Some(0)
               /\ ev.type = "OTHER"
                    => /\ sessionVars' = sessionVars
                       /\ UNCHANGED <<pc, aborted, callVars>>]_vars

\* an event of a kind without a case was handled while a sync was established
C8_Witness ==
    /\ \E ev \in dispatched : ev.type = "OTHER" /\ ev.kind = MaxOtherKinds
    /\ hostSync = "established"
    /\ console = <<"Event not handled", MaxOtherKinds>>
    /\ ret = Some(0)

-----------------------------------------------------------------------------
(* C9 *)

-----------------------------------------------------------------------------
(* C10 *)

\* C10: when a start call (sync-create or ext-scan) returns a non-zero status,
\* the session is Idle, the start sequence stops where it is, short of its end,
\* and no further request is issued to the host.
C10_StartFailureStops ==
    [][/\ StartCallFailed'
            => /\ state' = "Idle"
               /\ aborted'
               /\ ~StartSequenceDone'
       /\ StartCallFailed
            => UNCHANGED <<pc, syncCreateCalls, scanCalls>>]_vars

\* the scan request failed after the sync-create request was accepted
C10_Witness ==
    /\ StartCallFailed
    /\ pc = "ext_scan"
    /\ syncCreateCalls = 1
    /\ scanCalls = 1
    /\ hostSync = "pending"
    /\ state = "Idle"
    /\ aborted

-----------------------------------------------------------------------------
(* C12 *)

\* the step issued a start request to the host
StartCallIssued ==
    syncCreateCalls' # syncCreateCalls \/ scanCalls' # scanCalls

-----------------------------------------------------------------------------
(* C13 *)

\* C13: a sync-create request is issued only while the host has neither a
\* request pending nor a sync established, so at most one request is outstanding
\* and at most one sync exists, also across a host reset followed by a second
\* host-ready.
C13_OneOutstandingRequest ==
    [][syncCreateCalls' = syncCreateCalls + 1
            => hostSync \notin {"pending", "established"}]_vars

\* after a host reset and a second host-ready, the second request is pending
C13_Witness ==
    /\ syncCreateCalls = 2
    /\ hostReadyCount = 2
    /\ hostSync = "pending"
    /\ lastRc = Some(0)

-----------------------------------------------------------------------------
(* C14 *)

\* C14, as stated: when the host's sync becomes established, the scan is
\* cancelled, and no scan is running while the sync is established.
C14_ScanStoppedWhenSynced ==
    [][/\ \A ev \in Events :
            (Handled(ev) /\ IsEstablished(ev) /\ hostSync = "pending")
                => cancelCalls' = cancelCalls + 1
       /\ hostSync' = "established" => ~scanning']_vars

-----------------------------------------------------------------------------
(* C15 *)

\* C15, as stated: once the host's sync is lost, that does not last for ever
\* without a decision: a start request is issued again, or the lost sync is given
\* up at the host (a program stopped on a failed assert is left aside).
C15_LeavesLost ==
    \A n \in 0..(2 * MaxHostReady) :
        (hostSync = "lost" /\ syncCreateCalls = n)
            ~> (syncCreateCalls > n \/ hostSync # "lost" \/ aborted)

-----------------------------------------------------------------------------
(* C16 *)

\* the latest ble_hs_util_ensure_addr call failed
AddrFailed == addrRc # None /\ 0 \notin addrRc

\* C16: no sync-create or scan request is issued unless the latest
\* ble_hs_util_ensure_addr returned 0; the start sequence is entered only after
\* it returned 0, with the session Idle; when it fails the program stops and no
\* request is issued afterwards.
C16_AddressBeforeStart ==
    [][/\ StartCallIssued => addrRc = Some(0)
       /\ (pc' = "entry" /\ hostReadyCount' # hostReadyCount /\ ~aborted')
            => (addrRc' = Some(0) /\ state' = "Idle")
       /\ AddrFailed' => (aborted' /\ pc' = pc)
       /\ AddrFailed => ~StartCallIssued]_vars

\* the address was ensured, then both requests were issued
C16_Witness ==
    /\ addrRc = Some(0)
    /\ syncCreateCalls = 1
    /\ scanCalls = 1
    /\ pc = "sem_pend"
    /\ state = "Idle"

-----------------------------------------------------------------------------
(* C17 *)

\* C17: an extended-discovery report cancels no scan (a running scan keeps
\* running), changes nothing of the session, prints nothing, issues no host
\* call and returns 0.
C17_ExtDiscIsNoOp ==
    [][\A ev \in Events :
        (Handled(ev) /\ ev.type = "EXT_DISC")
            => /\ cancelCalls' = cancelCalls
               /\ scanning' = scanning
               /\ sessionVars' = sessionVars
               /\ ret' = Some(0)
               /\ UNCHANGED <<pc, aborted, callVars, console, hostSync>>]_vars

\* an extended-discovery report was handled while the scan was running
C17_Witness ==
    /\ \E ev \in dispatched : ev.type = "EXT_DISC"
    /\ scanning
    /\ cancelCalls = 0
    /\ ret = Some(0)

-----------------------------------------------------------------------------
(* C18 *)

\* C18: the host-reset callback leaves state, sync_handle, last_error and stats
\* unchanged, issues no host call, and neither moves nor stops the main task.
C18_ResetIsStateless ==
    [][(hostUp /\ ~hostUp')
            => /\ sessionVars' = sessionVars
               /\ UNCHANGED callVars
               /\ UNCHANGED <<pc, aborted>>
               /\ \E reason \in 0..MaxReason :
                    console' = <<"Resetting state; reason=", reason>>]_vars

\* the host reset after the start sequence had run to its end
C18_Witness ==
    /\ ~hostUp
    /\ hostReadyCount = 1
    /\ console = <<"Resetting state; reason=", MaxReason>>
    /\ pc = "loop"
    /\ syncCreateCalls = 1
    /\ scanCalls = 1
    /\ state = "Idle"

-----------------------------------------------------------------------------
(* C19 *)

\* C19: the session is Synced only after a sync-create request was accepted, and
\* a periodic-sync notification with status 0 handled while no request is
\* pending at the host neither moves the session into Synced nor changes
\* sync_handle.
C19_StrayEstablishedIgnored ==
    [][/\ state' = "Synced" => syncCreateCalls' >= 1
       /\ \A ev \in Events :
            (Handled(ev) /\ IsEstablished(ev) /\ hostSync # "pending")
                => /\ state' = "Synced" => state = "Synced"
                   /\ sync_handle' = sync_handle]_vars

\* an established notification was handled after the request had failed
C19_Witness ==
    /\ \E ev \in dispatched : IsEstablished(ev) /\ ev.sync_handle = MaxHandle
    /\ hostSync = "failed"
    /\ state = "Idle"
    /\ sync_handle = None

-----------------------------------------------------------------------------
(* C20 *)

\* C20: the scan request is issued only right after a sync-create request that
\* returned 0, and the wait and the loop are reached only after the scan request
\* returned 0 too.
C20_CreateThenScanThenWait ==
    [][/\ scanCalls' = scanCalls + 1
            => /\ pc = "ext_scan"
               /\ lastRc = Some(0)
               /\ syncCreateCalls > scanCalls
       /\ StartSequenceDone'
            => /\ lastRc' = Some(0)
               /\ scanCalls' >= 1
               /\ syncCreateCalls' >= scanCalls'
       /\ (pc' = "sem_pend" /\ pc # "sem_pend") => scanCalls' = scanCalls + 1
       /\ (pc' = "loop" /\ pc # "loop") => pc = "sem_pend"]_vars

\* both requests returned 0 and the task went through the wait into the loop
C20_Witness ==
    /\ pc = "loop"
    /\ syncCreateCalls = 1
    /\ scanCalls = 1
    /\ lastRc = Some(0)
    /\ console = <<"Entering infinite loop", 0>>

====
